---- MODULE Spec2Model ----
(***************************************************************************)
(* halfwit: search for the objects that cause a test to fail.              *)
(*                                                                         *)
(* Two parts of the repository are modelled:                               *)
(*   - the search loop of src/main.rs (a stack of Vec<Uuid> batches, the   *)
(*     files of the manifest copied in and removed, the test command);     *)
(*   - the Group type of src/bisection.rs (new, size, split, ordering).    *)
(*                                                                         *)
(* Objects are numbered 0..N-1 by their position in manifest.keys(), the   *)
(* order in which the first batch is built (main.rs:84) and in which       *)
(* manifest.iter() visits them (main.rs:89): the map is not changed in     *)
(* between, so both orders are the same.                                   *)
(***************************************************************************)
EXTENDS Integers, Sequences, FiniteSets, TLC

\* ------------------------------------------------------------------ bounds
\* Largest number of files of an enumerated run.
MaxN == 8
\* Cap on the number of test runs of one session (only an empty manifest
\* with a test that keeps failing can reach it, see TestsWithinTree).
MaxTests == 40
\* Largest index of a Group drawn for the Group operations.
MaxIdx == 4
\* Largest number of objects of a Bisection.
MaxObjs == 3
\* usize is modelled this many bits wide.
UsizeBits == 6

\* The object set of the end-to-end example (0-based indices).
Values == <<1, 5, 8, 7, 4, 6, 3, 9, 0, 5, 0, 3, 1, 7, 8, 7, 4, 0, 3>>

VARIABLES
    N,          \* manifest.len(): number of files under test
    oracle,     \* how the test command behaves: "culprits", "product", "free"
    D,          \* the dominant objects of a "culprits" oracle
    stack,      \* main.rs `stack`: Vec<Vec<Uuid>>, last element is the top
    bad,        \* main.rs `bad`: Vec<Uuid>
    next,       \* main.rs `next`: the batch popped in this iteration
    exists,     \* exists[i]: path.exists() of object i (the enabled state)
    pc,         \* position of main: "loop", "run", "done", "failed"
    tests,      \* number of completed run.status() calls
    passed,     \* batches whose test succeeded (the arm `true => {}`)
    tested,     \* the batches run.status() was called for so far
    verdict,    \* status().success() of the last call: "none", "pass", "fail"
    restored,   \* restore_manifest at main.rs:124: "no" (not called), "ok", "err"
    ga, gb, gc, \* Group values the Group operations are applied to
    kids,       \* result of ga.split(): <<g1, g2>>, <<>> before the call
    ord,        \* results of partial_cmp on ga, gb, gc, <<>> before the calls
    objects,    \* Bisection.objects: the cached State of each object
    groups,     \* Bisection.groups, <<>> before Bisection::new
    calls,      \* the set_state calls of the last set_group_state, in order
    op,         \* the last Bisection operation, its arguments and outcome
    made,       \* <<g>>: the value returned by Group::new, <<>> before
    msize       \* <<r>>: the outcome of made.size(), <<>> before

loopvars == <<N, oracle, D, stack, bad, next, exists, pc, tests, passed>>
ghostvars == <<tested, verdict, restored>>
groupvars == <<ga, gb, gc, kids, ord>>
bisvars == <<objects, groups, calls, op, made, msize>>
vars == <<N, oracle, D, stack, bad, next, exists, pc, tests, passed,
          tested, verdict, restored, ga, gb, gc, kids, ord,
          objects, groups, calls, op, made, msize>>

\* ------------------------------------------------------------- sequences
Range(s) == {s[i] : i \in 1..Len(s)}

Objects == 0..(N - 1)

\* 0, 1, ..., n-1 as a sequence: manifest.keys() collected into a Vec.
Keys(n) == [i \in 1..n |-> i - 1]

\* slice::split_at(mid): (v[..mid], v[mid..]).
split_at_uneven(v, mid) ==
    LET m == IF mid > 1 THEN 1 ELSE mid
    IN  <<SubSeq(v, 1, m), SubSeq(v, m + 1, Len(v))>>

split_at_lossy(v, mid) == <<SubSeq(v, 1, mid), SubSeq(v, mid + 2, Len(v))>>

split_at_overlap(v, mid) ==
    LET m == IF mid + 1 > Len(v) THEN Len(v) ELSE mid + 1
    IN  <<SubSeq(v, 1, m), SubSeq(v, mid + 1, Len(v))>>

split_at(v, mid) == <<SubSeq(v, 1, mid), SubSeq(v, mid + 1, Len(v))>>

\* The guard `next.len() == 1` of the second match arm (main.rs:106).
single_never(v) == FALSE

single_or_pair(v) == Len(v) >= 1 /\ Len(v) <= 2

single(v) == Len(v) = 1

\* Vec::contains
contains(v, x) == \E i \in 1..Len(v) : v[i] = x

\* --------------------------------------------------- enabling a batch
\* The body of the loop over the manifest (main.rs:90-98) for one object:
\* wanted is next.contains(uuid), present is path.exists(); the result is
\* whether the path exists afterwards.
SyncOneKeepStale(present, wanted) ==
    IF wanted
      THEN (IF ~present THEN TRUE ELSE present)
      ELSE present

SyncOne(present, wanted) ==
    IF wanted
      THEN (IF ~present THEN TRUE ELSE present)
      ELSE (IF present THEN FALSE ELSE present)

\* Does the loop body touch the file system for object i (fs::copy or
\* fs::remove_file)? Only these calls can fail.
NeedsIo(ex, batch, i) ==
    IF contains(batch, i) THEN ~ex[i] ELSE ex[i]

\* The loop over the manifest run for the objects 0..k-1.
SyncPrefix(ex, batch, k) ==
    [i \in DOMAIN ex |->
        IF i < k THEN SyncOne(ex[i], contains(batch, i)) ELSE ex[i]]

\* ------------------------------------------------------ the test command
\* Product of the values of the present objects, saturated at 1: the
\* values are digits, so the product is 0 iff the saturated product is 0.
RECURSIVE SatProduct(_, _)
SatProduct(ex, i) ==
    IF i \notin DOMAIN ex THEN 1
    ELSE IF ex[i] /\ Values[i + 1] = 0 THEN 0
    ELSE SatProduct(ex, i + 1)

\* The exit statuses the command can have with the files `ex` present:
\* TRUE is status().success().
Statuses(ex) ==
    CASE oracle = "culprits" -> {~(\E i \in D : ex[i])}
      [] oracle = "product"  -> {~(SatProduct(ex, 0) = 0)}
      [] OTHER               -> BOOLEAN

\* ------------------------------------------------------------------ Init
\* No Bisection has been built and no Group::new call has been made.
NoOp ==
    [name |-> "none", group |-> [from |-> 0, to |-> 0, behavior |-> "Unknown"],
     state |-> "Enabled", before |-> <<>>, groups_before |-> <<>>,
     panicked |-> FALSE]

BisIdle ==
    /\ objects = <<>> /\ groups = <<>> /\ calls = <<>>
    /\ op = NoOp /\ made = <<>> /\ msize = <<>>

NoGroup == [from |-> 0, to |-> 0, behavior |-> "Unknown"]

GroupIdle ==
    /\ ga = NoGroup /\ gb = NoGroup /\ gc = NoGroup
    /\ kids = <<>> /\ ord = <<>>

\* main.rs:77-81: every file is removed, then restore_manifest copies the
\* files back in manifest order and stops at the first fs::copy that
\* fails (object k; k = n when none fails). Its result is dropped.
RestoredUpTo(n, k) == [i \in 0..(n - 1) |-> i < k]

Init ==
    /\ \/ /\ N \in 0..MaxN
          /\ oracle = "culprits"
          /\ D \in SUBSET (0..(N - 1))
       \/ /\ N \in 0..MaxN
          /\ oracle = "free"
          /\ D = {}
       \/ /\ N = Len(Values)
          /\ oracle = "product"
          /\ D = {}
    /\ stack = <<Keys(N)>>
    /\ bad = <<>>
    /\ next = <<>>
    /\ \E k \in 0..N : exists = RestoredUpTo(N, k)
    /\ pc = "loop"
    /\ tests = 0
    /\ passed = {}
    /\ tested = {}
    /\ verdict = "none"
    /\ restored = "no"
    /\ GroupIdle
    /\ BisIdle

\* --------------------------------------------------------------- actions
\* main.rs:86-100: pop the next batch and make exactly its files present.
Pop ==
    /\ pc = "loop"
    /\ stack # <<>>
    /\ next' = stack[Len(stack)]
    /\ stack' = SubSeq(stack, 1, Len(stack) - 1)
    /\ exists' = SyncPrefix(exists, stack[Len(stack)], N)
    /\ pc' = "run"
    /\ UNCHANGED <<N, oracle, D, bad, tests, passed, ghostvars, groupvars,
                   bisvars>>

\* The error of object k dropped instead of returned: the loop goes on to
\* the other objects and the command is run.
PopFailIgnored ==
    /\ pc = "loop"
    /\ stack # <<>>
    /\ \E k \in Objects :
          /\ NeedsIo(exists, stack[Len(stack)], k)
          /\ exists' = [SyncPrefix(exists, stack[Len(stack)], N)
                           EXCEPT ![k] = exists[k]]
    /\ next' = stack[Len(stack)]
    /\ stack' = SubSeq(stack, 1, Len(stack) - 1)
    /\ pc' = "run"
    /\ UNCHANGED <<N, oracle, D, bad, tests, passed, ghostvars, groupvars,
                   bisvars>>

\* main.rs:92, 96: fs::copy or fs::remove_file fails for object k; `?`
\* returns from main with the objects before k already synchronised.
PopFail ==
    /\ pc = "loop"
    /\ stack # <<>>
    /\ \E k \in Objects :
          /\ NeedsIo(exists, stack[Len(stack)], k)
          /\ exists' = SyncPrefix(exists, stack[Len(stack)], k)
    /\ next' = stack[Len(stack)]
    /\ stack' = SubSeq(stack, 1, Len(stack) - 1)
    /\ pc' = "failed"
    /\ UNCHANGED <<N, oracle, D, bad, tests, passed, ghostvars, groupvars,
                   bisvars>>

\* main.rs:102-118: run the command and handle the result.
RunTest ==
    /\ pc = "run"
    /\ tests < MaxTests
    /\ \E ok \in Statuses(exists) :
          /\ tested' = tested \cup {next}
          /\ verdict' = IF ok THEN "pass" ELSE "fail"
          /\ IF ok
               THEN /\ passed' = passed \cup {next}
                    /\ UNCHANGED <<stack, bad>>
               ELSE IF single(next)
                 THEN /\ bad' = Append(bad, next[1])
                      /\ UNCHANGED <<stack, passed>>
                 ELSE /\ stack' = stack \o split_at(next, Len(next) \div 2)
                      /\ UNCHANGED <<bad, passed>>
    /\ tests' = tests + 1
    /\ pc' = "loop"
    /\ UNCHANGED <<N, oracle, D, next, exists, restored, groupvars, bisvars>>

\* main.rs:102: run.status() is an Err (the shell cannot be started).
RunError ==
    /\ pc = "run"
    /\ pc' = "failed"
    /\ UNCHANGED <<N, oracle, D, stack, bad, next, exists, tests, passed,
                   ghostvars, groupvars, bisvars>>

\* main.rs:120-126 and restore_manifest: the loop is over, every file is
\* copied back; main returns Ok.
Finish ==
    /\ pc = "loop"
    /\ stack = <<>>
    /\ exists' = [i \in Objects |-> TRUE]
    /\ restored' = "ok"
    /\ pc' = "done"
    /\ UNCHANGED <<N, oracle, D, stack, bad, next, tests, passed, tested,
                   verdict, groupvars, bisvars>>

\* restore_manifest stops at the first fs::copy that fails (object k); its
\* result is dropped at main.rs:124 and main still returns Ok.
FinishRestoreFail ==
    /\ pc = "loop"
    /\ stack = <<>>
    /\ \E k \in Objects :
          exists' = [i \in Objects |-> IF i < k THEN TRUE ELSE exists[i]]
    /\ restored' = "err"
    /\ pc' = "done"
    /\ UNCHANGED <<N, oracle, D, stack, bad, next, tests, passed, tested,
                   verdict, groupvars, bisvars>>

Next ==
    \/ Pop
    \/ PopFail
    \/ RunTest
    \/ RunError
    \/ Finish
    \/ FinishRestoreFail

Spec == Init /\ [][Next]_vars

\* A session in which every file operation and every start of the command
\* succeeds. main is one sequential thread: whenever it can take its next
\* step it does.
NextOk ==
    \/ Pop
    \/ RunTest
    \/ Finish

InitOk == Init /\ exists = RestoredUpTo(N, N)

LiveSpec == InitOk /\ [][NextOk]_vars /\ WF_vars(NextOk)

\* ------------------------------------------------------------ Group
Behaviors == {"Unknown", "Dominant", "Recessive"}

\* Group::new
GroupNew(from, to) == [from |-> from, to |-> to, behavior |-> "Unknown"]

\* Group::set_behavior
set_behavior(g, b) == [g EXCEPT !.behavior = b]

\* Group::size
size_exclusive(g) == g.to - g.from

size(g) == g.to - g.from + 1

\* The behavior of the children of a split (bisection.rs:155-158).
new_behavior_unknown(b) == "Unknown"

new_behavior(b) ==
    CASE b = "Recessive" -> "Recessive"
      [] b \in {"Dominant", "Unknown"} -> "Unknown"

\* The end of the first child of a split (bisection.rs:161).
split_mid_upper_extra(g) == g.from + (g.to - g.from - 1) \div 2

split_mid(g) == g.from + (g.to - g.from) \div 2

\* The start of the second child of a split (bisection.rs:165).
split_second_from_overlap(g1) == g1.to

split_second_from(g1) == g1.to + 1

\* Group::split
split(g) ==
    IF g.from = g.to
      THEN <<g, g>>
      ELSE LET g1 == [from |-> g.from,
                      to |-> split_mid(g),
                      behavior |-> new_behavior(g.behavior)]
               g2 == [from |-> split_second_from(g1),
                      to |-> g.to,
                      behavior |-> new_behavior(g.behavior)]
           IN  <<g1, g2>>

\* Ord::cmp on integers, and Ordering::reverse.
cmp(a, b) == IF a < b THEN "Less" ELSE IF a > b THEN "Greater" ELSE "Equal"

reverse(o) ==
    CASE o = "Less" -> "Greater"
      [] o = "Greater" -> "Less"
      [] OTHER -> "Equal"

\* The rank of a behavior in the ordering (bisection.rs:213-222).
rank_dominant_first(b) ==
    CASE b = "Unknown" -> 2
      [] b = "Dominant" -> 3
      [] b = "Recessive" -> 1

rank(b) ==
    CASE b = "Unknown" -> 3
      [] b = "Dominant" -> 2
      [] b = "Recessive" -> 1

\* The comparison of the `from` fields (bisection.rs:234-237).
cmp_from_unreversed(a, b) == cmp(a.from, b.from)

cmp_from(a, b) == reverse(cmp(a.from, b.from))

\* PartialOrd::partial_cmp for Group (always Some). The last comparison
\* compares `from` once more (bisection.rs:239), so it is Equal whenever
\* it is reached and its panicking arm is dead.
partial_cmp(a, b) ==
    IF cmp(rank(a.behavior), rank(b.behavior)) # "Equal"
      THEN cmp(rank(a.behavior), rank(b.behavior))
    ELSE IF cmp(size(a), size(b)) # "Equal"
      THEN cmp(size(a), size(b))
    ELSE IF cmp_from(a, b) # "Equal"
      THEN cmp_from(a, b)
    ELSE IF cmp(a.from, b.from) # "Equal"
      THEN reverse(cmp(a.from, b.from))
    ELSE "Equal"

\* Ord::cmp for Group
group_cmp(a, b) == partial_cmp(a, b)

\* The Group values over the indices 0..MaxIdx: Group::new followed by
\* set_behavior.
Groups ==
    {set_behavior(GroupNew(f, t), b) :
        f \in 0..MaxIdx, t \in 0..MaxIdx, b \in Behaviors}

WellFormed(g) == g.from <= g.to

LoopIdle ==
    /\ N = 0 /\ oracle = "free" /\ D = {}
    /\ stack = <<>> /\ bad = <<>> /\ next = <<>>
    /\ exists = <<>> /\ pc = "idle" /\ tests = 0 /\ passed = {}
    /\ tested = {} /\ verdict = "none" /\ restored = "no"

GroupInit ==
    /\ ga \in {g \in Groups : WellFormed(g)}
    /\ gb \in {g \in Groups : WellFormed(g)}
    /\ gc \in {g \in Groups : WellFormed(g)}
    /\ kids = <<>>
    /\ ord = <<>>
    /\ LoopIdle
    /\ BisIdle

\* let (g1, g2) = ga.split();
Split ==
    /\ kids = <<>>
    /\ kids' = split(ga)
    /\ UNCHANGED <<ga, gb, gc, ord, loopvars, ghostvars, bisvars>>

\* ga.cmp(&gb), gb.cmp(&ga), gb.cmp(&gc), ga.cmp(&gc), ga.cmp(&ga)
Compare ==
    /\ ord = <<>>
    /\ ord' = <<group_cmp(ga, gb), group_cmp(gb, ga), group_cmp(gb, gc),
                group_cmp(ga, gc), group_cmp(ga, ga)>>
    /\ UNCHANGED <<ga, gb, gc, kids, loopvars, ghostvars, bisvars>>

GroupNext == Split \/ Compare

GroupSpec == GroupInit /\ [][GroupNext]_vars

\* =============================================================== claims
\* ------------------------------------------------ helpers of the claims
\* The indices of a Group, in the order IntoIterator yields them.
Members_exclusive(g) == [i \in 1..(g.to - g.from) |-> g.from + i - 1]

Members(g) == [i \in 1..(g.to - g.from + 1) |-> g.from + i - 1]

\* The Group a batch of the search loop stands for: its first and last
\* index, not yet classified.
AsGroup(v) == GroupNew(v[1], v[Len(v)])

\* Every batch of the search loop is a run of consecutive indices.
BatchesAreRanges ==
    /\ \A j \in 1..Len(stack) :
          stack[j] # <<>> => stack[j] = Members(AsGroup(stack[j]))
    /\ next # <<>> => next = Members(AsGroup(next))

\* With at least one file, a session makes at most 2N-1 test runs (one
\* per node of a binary tree with N leaves): MaxTests never stops it.
TestsWithinTree == (N >= 1) => (tests <= 2 * N - 1 /\ 2 * N - 1 < MaxTests)

RECURSIVE Log2(_)
Log2(n) == IF n <= 1 THEN 0 ELSE 1 + Log2(n \div 2)

RECURSIVE Pow2(_)
Pow2(k) == IF k = 0 THEN 1 ELSE 2 * Pow2(k - 1)

\* The indices of the end-to-end example that hold the value 0.
ZeroIndices == {8, 10, 17}

\* ------------------------------------------------------------------- C1
\* C1: with a non-empty object set and a test that reports dominant exactly
\* when a dominant object is enabled, the finished search has reported
\* exactly the dominant objects: all of them, and no recessive one. For
\* the example values with "product of the enabled values is 0" as the
\* dominant behaviour, the result is exactly the indices 8, 10 and 17.
C1_ResultIsDominantSet ==
    (pc = "done" /\ N >= 1) =>
        /\ oracle = "culprits" => Range(bad) = D
        /\ oracle = "product" => Range(bad) = ZeroIndices

C1_Witness ==
    /\ pc = "done"
    /\ oracle = "product"
    /\ Len(bad) = 3
    /\ tests > 3

\* ------------------------------------------------------------------- C2
\* Every object is in a batch whose test passed (a Recessive group) or is
\* itself reported (a Dominant group of size 1).
AllSettled ==
    \A i \in Objects :
        \/ \E g \in passed : contains(g, i)
        \/ contains(bad, i)

\* C2: for a non-empty object set and any results of the tests, the search
\* loop eventually has an empty worklist and stops there, and then every
\* object lies in a Recessive group or is a Dominant group of size 1.
C2_TerminatesSettled ==
    (N >= 1) => <>[](pc = "done" /\ stack = <<>> /\ AllSettled)

C2_Witness ==
    /\ pc = "done"
    /\ oracle = "free"
    /\ N >= 3
    /\ passed # {}
    /\ bad # <<>>
    /\ AllSettled

\* ------------------------------------------------------------------- C3
\* C3: whenever the test is about to run, the enabled objects are exactly
\* the objects of the batch just popped.
C3_EnabledIsPoppedBatch ==
    (pc = "run") => \A i \in Objects : exists[i] <=> contains(next, i)

\* A later iteration: objects of earlier batches were enabled before.
C3_Witness ==
    /\ pc = "run"
    /\ tests >= 2
    /\ next # <<>>
    /\ \E i \in Objects : ~exists[i]

\* ------------------------------------------------------------------- C4
\* C4: the batch taken from the worklist is greater, in the Group
\* ordering, than every batch still waiting: none of them is larger, and
\* none of the same size starts earlier.
C4_PopsHighestPriority ==
    (pc = "run" /\ N >= 1) =>
        \A j \in 1..Len(stack) :
            partial_cmp(AsGroup(next), AsGroup(stack[j])) = "Greater"

\* ------------------------------------------------------------------- C5
\* C5: when a batch of more than one object fails its test, the two
\* batches pushed are the children Group::split gives for it, the lower
\* one first.
C5_PushesGroupSplit ==
    [][(pc = "run" /\ N >= 1 /\ Len(stack') = Len(stack) + 2) =>
          /\ stack'[Len(stack) + 1] = Members(split(AsGroup(next))[1])
          /\ stack'[Len(stack) + 2] = Members(split(AsGroup(next))[2])]_vars

\* ------------------------------------------------------------------ C10
SingleCulprit ==
    /\ pc = "done"
    /\ oracle = "culprits"
    /\ Cardinality(D) = 1
    /\ N = Pow2(Log2(N))

\* C10: one dominant object in a set of size 2^k: the search is over
\* after exactly k runs of the test.
C10_ExactlyKTests == SingleCulprit => tests = Log2(N)

\* C10 as amended: the search is over after exactly 2k+1 runs of the test
\* (the whole set, then both halves at each of the k levels).
C10_Exactly2KPlus1Tests == SingleCulprit => tests = 2 * Log2(N) + 1

C10_Witness == SingleCulprit /\ N = 8 /\ tests = 7

\* ---------------------------------------------- claims about Group
\* The set of indices of a Group.
Indices(g) == g.from..g.to

\* ga has been split and has more than one object.
SplitOfLarger == kids # <<>> /\ size(ga) > 1

\* ------------------------------------------------------------------- C6
\* C6: the children of a split of a group of more than one object are
\* non-empty, the second starts right after the end of the first, they
\* share no index, together they are the parent's range, and their sizes
\* add up to the parent's.
C6_SplitPartitionsParent ==
    SplitOfLarger =>
        /\ kids[2].from = kids[1].to + 1
        /\ Indices(kids[1]) \cap Indices(kids[2]) = {}
        /\ Indices(kids[1]) \cup Indices(kids[2]) = Indices(ga)
        /\ Indices(kids[1]) # {}
        /\ Indices(kids[2]) # {}
        /\ size(kids[1]) + size(kids[2]) = size(ga)

C6_Witness == SplitOfLarger /\ size(ga) = 4 /\ ga.from > 0

\* ------------------------------------------------------------------- C7
\* C7: the children are [from, mid] and [mid+1, to] with
\* mid = from + floor((to - from) / 2): the first child is as large as
\* the second for an even parent and one larger for an odd parent.
C7_LowerChildHoldsExtra ==
    SplitOfLarger =>
        /\ \E mid \in Indices(ga) :
              /\ 2 * (mid - ga.from) <= ga.to - ga.from
              /\ ga.to - ga.from < 2 * (mid - ga.from) + 2
              /\ kids[1].from = ga.from /\ kids[1].to = mid
              /\ kids[2].from = mid + 1 /\ kids[2].to = ga.to
        /\ size(ga) % 2 = 0 => size(kids[1]) = size(kids[2])
        /\ size(ga) % 2 = 1 => size(kids[1]) = size(kids[2]) + 1

C7_Witness == SplitOfLarger /\ size(ga) = 3 /\ size(kids[1]) = 2

\* ------------------------------------------------------------------- C8
\* C8: both children carry the same behavior: Recessive for a Recessive
\* parent, Unknown for an Unknown or a Dominant parent, never Dominant.
C8_ChildrenBehavior ==
    SplitOfLarger =>
        /\ kids[1].behavior = kids[2].behavior
        /\ ga.behavior = "Recessive" => kids[1].behavior = "Recessive"
        /\ ga.behavior \in {"Unknown", "Dominant"} =>
              kids[1].behavior = "Unknown"
        /\ kids[1].behavior # "Dominant" /\ kids[2].behavior # "Dominant"

C8_Witness ==
    /\ SplitOfLarger
    /\ ga.behavior = "Recessive"
    /\ kids[2].behavior = "Recessive"

\* ------------------------------------------------------------------- C9
\* The ranking the ordering is meant to be: behavior first
\* (Unknown > Dominant > Recessive), then the larger size, then the
\* smaller from.
BehaviorAbove(x, y) ==
    <<x, y>> \in {<<"Unknown", "Dominant">>, <<"Unknown", "Recessive">>,
                  <<"Dominant", "Recessive">>}

RankedAbove(a, b) ==
    \/ BehaviorAbove(a.behavior, b.behavior)
    \/ /\ a.behavior = b.behavior
       /\ \/ a.to - a.from > b.to - b.from
          \/ /\ a.to - a.from = b.to - b.from
             /\ a.from < b.from

\* C9: the ordering of Groups is a strict total order: two distinct groups
\* compare Less one way and Greater the other, a group is Equal only to
\* itself, the order is transitive, and it is the ranking by behavior,
\* then size, then from.
C9_StrictTotalOrder ==
    (ord # <<>>) =>
        /\ ga # gb => \/ ord[1] = "Less" /\ ord[2] = "Greater"
                      \/ ord[1] = "Greater" /\ ord[2] = "Less"
        /\ ord[5] = "Equal"
        /\ ord[1] = "Equal" => ga = gb
        /\ (ord[1] = "Less" /\ ord[3] = "Less") => ord[4] = "Less"
        /\ (ord[1] = "Greater" /\ ord[3] = "Greater") => ord[4] = "Greater"
        /\ ord[1] = "Greater" <=> RankedAbove(ga, gb)
        /\ ord[1] = "Less" <=> RankedAbove(gb, ga)

C9_Witness ==
    /\ ord # <<>>
    /\ ga.behavior = gb.behavior
    /\ size(ga) = size(gb)
    /\ ga.from < gb.from
    /\ ord[1] = "Greater"
    /\ ord[3] = "Greater"
    /\ ord[4] = "Greater"

\* ------------------------------------------------------------------ C13
\* C13: split() on a group of one object is an error and gives no
\* children: whenever a split has returned children, the group had more
\* than one object.
C13_SingleIsNotSplit == (kids # <<>>) => size(ga) > 1

\* ------------------------------------- claims about the end of a session
Ended == pc \in {"done", "failed"}

AllPresent == \A i \in Objects : exists[i]

\* ------------------------------------------------------------------ C11
\* C11: however a session ends once the search has started (the loop is
\* over, a file could not be copied or removed, the command could not be
\* run), restore_manifest has been called before, and when its copies
\* succeeded every object is present again.
C11_EveryEndRestores ==
    Ended => (restored # "no" /\ (restored = "ok" => AllPresent))

\* ------------------------------------------------------------------ C12
\* C12: with an empty object set the run ends with an error before any
\* search: the test is never run and the session does not complete.
C12_EmptySetFailsFast ==
    (N = 0) => (tests = 0 /\ pc # "done")

\* ------------------------------------------------------------------ C17
\* The batch being set up or tested: popped, and not yet settled or split.
InFlight == IF pc \in {"run", "failed"} THEN {next} ELSE {}

\* How many live or settled groups hold the index i.
Holders(i) ==
    Cardinality({j \in 1..Len(stack) : contains(stack[j], i)})
    + Cardinality({g \in InFlight : contains(g, i)})
    + Cardinality({g \in passed : contains(g, i)})
    + Cardinality({j \in 1..Len(bad) : bad[j] = i})

\* C17: in every state of the search, each index of 0..N-1 is in exactly
\* one group among those waiting on the worklist, the one being tested,
\* those that passed and the reported singletons; and these groups hold
\* no other index.
C17_GroupsPartitionRange ==
    /\ \A i \in Objects : Holders(i) = 1
    /\ \A j \in 1..Len(stack) : Range(stack[j]) \subseteq Objects
    /\ \A g \in passed \cup InFlight : Range(g) \subseteq Objects
    /\ Range(bad) \subseteq Objects

C17_Witness ==
    /\ pc = "loop"
    /\ Len(stack) >= 2
    /\ passed # {}
    /\ bad # <<>>

\* ------------------------------------------------------------------ C18
\* C18: a batch whose test passed is retired without a split: the step
\* pushes nothing and reports nothing, and afterwards none of its indices
\* is on the worklist, in the result, or enabled for a later test.
C18_RecessiveIsRetired ==
    /\ [][(passed' # passed) =>
             (stack' = stack /\ bad' = bad /\ next \in passed')]_vars
    /\ [](\A g \in passed : \A i \in Range(g) :
             /\ ~contains(bad, i)
             /\ \A j \in 1..Len(stack) : ~contains(stack[j], i)
             /\ (pc = "run") => (~contains(next, i) /\ ~exists[i]))

C18_Witness ==
    /\ pc = "run"
    /\ \E g \in passed : Len(g) >= 2
    /\ Len(next) >= 1
    /\ tests >= 3

\* ------------------------------------------------------------------ C19
\* A step of the loop that leaves the popped batch only partly applied.
PartlyApplied ==
    /\ pc = "loop"
    /\ stack # <<>>
    /\ \E i \in Objects : exists'[i] # contains(next', i)

\* C19: when a file of the popped batch cannot be copied or removed, the
\* iteration is abandoned: the test is not run for that batch, the batch
\* is neither recorded as passed nor split, nothing is reported, and
\* nothing happens afterwards.
C19_ApplyFailureAborts ==
    /\ [][PartlyApplied =>
             /\ pc' = "failed"
             /\ tests' = tests /\ tested' = tested
             /\ passed' = passed /\ bad' = bad
             /\ stack' = SubSeq(stack, 1, Len(stack) - 1)]_vars
    /\ [][pc # "failed"]_vars

C19_Witness ==
    /\ pc = "failed"
    /\ tests >= 1
    /\ Len(next) >= 2
    /\ \E i \in Objects : exists[i] # contains(next, i)
    /\ \E i \in Objects : contains(next, i) /\ exists[i]

\* ------------------------------------------------------------------ C20
\* C20: whatever the tests answer, an index is reported only by a step
\* that tested the batch holding just that index, with that object alone
\* enabled, and saw it fail; no group is tested twice and no index is
\* reported twice.
C20_ReportedOnlyAsFailedSingleton ==
    /\ [][(bad' # bad) =>
             /\ pc = "run"
             /\ Len(next) = 1
             /\ bad' = Append(bad, next[1])
             /\ \A i \in Objects : exists[i] <=> (i = next[1])
             /\ verdict' = "fail"]_vars
    /\ [][(tests' # tests) =>
             /\ pc = "run"
             /\ tested' = tested \cup {next}
             /\ next \notin tested \/ next = <<>>]_vars
    /\ [](\A j, k \in 1..Len(bad) : (j # k) => bad[j] # bad[k])

C20_Witness ==
    /\ oracle = "free"
    /\ Len(bad) >= 2
    /\ Cardinality(tested) >= 5
    /\ passed # {}

\* -------------------------------------------------------------- usize
RECURSIVE TwoTo(_)
TwoTo(n) == IF n = 0 THEN 1 ELSE 2 * TwoTo(n - 1)

UsizeMax == TwoTo(UsizeBits) - 1

\* A value reduced to the width of usize.
wrap(x) == ((x % (UsizeMax + 1)) + (UsizeMax + 1)) % (UsizeMax + 1)

\* Overflow checks are on in a debug build (a panic) and off in a release
\* build (the value wraps).
Builds == {"debug", "release"}

\* a - b on usize
usize_sub(build, a, b) ==
    IF a - b < 0 /\ build = "debug"
      THEN [panic |-> TRUE, value |-> 0]
      ELSE [panic |-> FALSE, value |-> wrap(a - b)]

\* Group::size with the width of usize: to - from + 1.
size_in(build, g) ==
    IF g.from <= g.to /\ g.to - g.from < UsizeMax
      THEN [panic |-> FALSE, value |-> size(g)]
    ELSE IF build = "debug"
      THEN [panic |-> TRUE, value |-> 0]
      ELSE [panic |-> FALSE, value |-> wrap(wrap(g.to - g.from) + 1)]

\* ---------------------------------------------------------- Bisection
States == {"Enabled", "Disabled"}

\* Stateful::set_state on an object whose cached state is `cell`: the
\* state it caches afterwards (what Stateful::state returns).
set_state(cell, state) == state

\* The loop of set_group_state from the k-th index of `its` on: the
\* objects afterwards, the set_state calls made, and whether
\* get_mut(i).unwrap() panicked (index i is not an object).
RECURSIVE set_states(_, _, _, _)
set_states(objs, its, k, state) ==
    IF k > Len(its)
      THEN [objects |-> objs, calls |-> <<>>, panicked |-> FALSE]
    ELSE IF its[k] >= Len(objs)
      THEN [objects |-> objs, calls |-> <<>>, panicked |-> TRUE]
    ELSE LET rest == set_states(
                       [objs EXCEPT ![its[k] + 1] = set_state(@, state)],
                       its, k + 1, state)
         IN  [rest EXCEPT
                !.calls = <<[i |-> its[k], state |-> state]>> \o @]

\* Bisection::set_group_state
set_group_state(objs, group, state) ==
    set_states(objs, Members(group), 1, state)

BisInit ==
    /\ \E n \in 0..MaxObjs : objects \in [1..n -> States]
    /\ groups = <<>>
    /\ calls = <<>>
    /\ op = NoOp
    /\ made = <<>>
    /\ msize = <<>>
    /\ LoopIdle
    /\ GroupIdle

\* Bisection::new(objects): one group over all objects, to = len - 1.
BisectionNew ==
    /\ op.name = "none"
    /\ \E build \in Builds :
          LET last == usize_sub(build, Len(objects), 1)
          IN  /\ groups' = IF last.panic THEN <<>>
                           ELSE <<GroupNew(0, last.value)>>
              /\ op' = [NoOp EXCEPT !.name = "new", !.before = objects,
                                    !.panicked = last.panic]
    /\ UNCHANGED <<objects, calls, made, msize, loopvars, ghostvars,
                   groupvars>>

\* let g = Group::new(from, to);
GroupNewCall ==
    /\ made = <<>>
    /\ \E from \in 0..MaxIdx, to \in 0..MaxIdx :
          made' = <<GroupNew(from, to)>>
    /\ UNCHANGED <<objects, groups, calls, op, msize, loopvars, ghostvars,
                   groupvars>>

\* g.size()
GroupSize ==
    /\ made # <<>>
    /\ msize = <<>>
    /\ \E build \in Builds : msize' = <<size_in(build, made[1])>>
    /\ UNCHANGED <<objects, groups, calls, op, made, loopvars, ghostvars,
                   groupvars>>

\* bisection.set_group_state(&g, state)
SetGroupState ==
    /\ groups # <<>>
    /\ ~op.panicked
    /\ made # <<>>
    /\ \E state \in States :
          LET r == set_group_state(objects, made[1], state)
          IN  /\ objects' = r.objects
              /\ calls' = r.calls
              /\ op' = [name |-> "set", group |-> made[1], state |-> state,
                        before |-> objects, groups_before |-> groups,
                        panicked |-> r.panicked]
    /\ UNCHANGED <<groups, made, msize, loopvars, ghostvars, groupvars>>

BisNext ==
    \/ BisectionNew
    \/ GroupNewCall
    \/ GroupSize
    \/ SetGroupState

BisSpec == BisInit /\ [][BisNext]_vars

\* ------------------------------------------------------------------ C14
\* C14: Group::new(from, to) with from > to is an error and gives no
\* Group: every Group it returns has from <= to, and behavior Unknown.
C14_NewRejectsReversed ==
    (made # <<>>) =>
        (made[1].from <= made[1].to /\ made[1].behavior = "Unknown")

\* ------------------------------------------------------------------ C15
\* The last operation was set_group_state with a group inside the objects.
SetInRange == op.name = "set" /\ op.group.to < Len(op.before)

\* C15: after set_group_state(group, state) with the group inside the
\* object set, every object of [from, to] caches `state`, set_state was
\* called once for each of them in ascending order, every other object
\* keeps its state, and the group list is unchanged.
C15_SetGroupStateFrame ==
    SetInRange =>
        /\ ~op.panicked
        /\ Len(objects) = Len(op.before)
        /\ \A i \in 0..(Len(objects) - 1) :
              objects[i + 1] =
                 IF op.group.from <= i /\ i <= op.group.to
                   THEN op.state ELSE op.before[i + 1]
        /\ calls = [k \in 1..(op.group.to - op.group.from + 1) |->
                       [i |-> op.group.from + k - 1, state |-> op.state]]
        /\ groups = op.groups_before

C15_Witness ==
    /\ SetInRange
    /\ Len(calls) = 2
    /\ op.group.from = 1
    /\ op.before[1] # op.state
    /\ op.before[2] # op.state

\* ------------------------------------------------------------------ C16
\* C16: for from <= to, Group::new(from, to).size() is to - from + 1, the
\* number of indices of the group, and at least 1.
C16_SizeIsIndexCount ==
    (msize # <<>> /\ made[1].from <= made[1].to) =>
        /\ ~msize[1].panic
        /\ msize[1].value = made[1].to - made[1].from + 1
        /\ msize[1].value = Cardinality(made[1].from..made[1].to)
        /\ msize[1].value >= 1

C16_Witness ==
    /\ msize # <<>>
    /\ made[1].from = 1
    /\ made[1].to = 3
    /\ msize[1].value = 3

====
